---------------------------- MODULE Spec2Model ----------------------------
(***************************************************************************)
(* A model of src/src/main.rs: the document-similarity pipeline.           *)
(*                                                                         *)
(*   Spec      main: analysis of the corpus (par_bridge map), the nested   *)
(*             loop of calculate_all_similarities, the top-K selection.    *)
(*   SpecWords count_words applied to bounded articles, dictionaries and   *)
(*             stopword sets.                                              *)
(*   SpecDict  build_dictionary's parallel fold / reduce_with, run twice   *)
(*             on the same lines with independent schedules.               *)
(*                                                                         *)
(* Representation.  A String is the sequence of the code points of its    *)
(* characters (a permalink, which is only compared, is a TLA+ string).     *)
(* A HashMap is a function whose DOMAIN is                                 *)
(* its key set.  An f32 is NaN, infinity or mantissa and exponent, and its *)
(* arithmetic rounds as the hardware does.  Counts stay far below 2^16, so *)
(* the u32 sums of squares never wrap.                                     *)
(***************************************************************************)
EXTENDS Integers, Sequences, FiniteSets, TLC

VARIABLES
    \* ---- main ----
    files,                      \* the corpus: the catalog ids glob yields
    pending,                    \* files the par_bridge map has not run yet
    analyzed_files,             \* Vec<(String, HashMap<String, u32>)>
    all_results,                \* HashMap<String, HashMap<String, f32>>
    idx1, idx2,                 \* positions of the two r.iter() loops
    calls,                      \* invocations of calculate_cosine_similarity
    top_similarities_per_files, \* HashMap<&String, Vec<&String>>
    pc,                         \* where main is
    panic,                      \* which unwrap / index panicked, or "none"
    \* ---- count_words ----
    cw_article, cw_dictionary, cw_stopwords, cw_counter, cw_pc,
    \* ---- build_dictionary, two runs ----
    d_lines, d_next, d_held, d_acc, d_live, d_result

mainVars  == <<files, pending, analyzed_files, all_results, idx1, idx2, calls,
               top_similarities_per_files, pc, panic>>
wordsVars == <<cw_article, cw_dictionary, cw_stopwords, cw_counter, cw_pc>>
dictVars  == <<d_lines, d_next, d_held, d_acc, d_live, d_result>>
vars      == <<mainVars, wordsVars, dictVars>>

-----------------------------------------------------------------------------
(* Bounds of the model.                                                    *)

MaxArticles == 5        \* largest corpus
MaxArticleLen == 5      \* longest article text given to count_words
MaxLines == 3           \* longest dictionary source
NumWorkers == 2         \* rayon worker threads folding dictionary lines

(* Program constants.                                                      *)

TOP_ITEMS == 3

-----------------------------------------------------------------------------
(* Strings, hash maps.                                                     *)

EmptyMap == <<>>

MapPut(m, k, v) == [x \in DOMAIN m \cup {k} |-> IF x = k THEN v ELSE m[x]]

Range(s) == {s[i] : i \in DOMAIN s}

\* Notation for the texts of the model: the code point of an ASCII character
\* written as a TLA+ string, and the String of a sequence of them.
Letters ==
    << "a", "b", "c", "d", "e", "f", "g", "h", "i", "j", "k", "l", "m",
       "n", "o", "p", "q", "r", "s", "t", "u", "v", "w", "x", "y", "z" >>

Code(ch) ==
    CASE ch = "\t" -> 9
      [] ch = "\n" -> 10
      [] ch = "\r" -> 13
      [] ch = " " -> 32
      [] ch = "\\" -> 92
      [] OTHER -> 96 + (CHOOSE i \in DOMAIN Letters : Letters[i] = ch)

Text(s) == [i \in DOMAIN s |-> Code(s[i])]

\* char::is_whitespace: the code points of Unicode's White_Space property
WhiteSpace ==
    (9 .. 13) \cup {32, 133, 160, 5760} \cup (8192 .. 8202)
        \cup {8232, 8233, 8239, 8287, 12288}

IsWhitespace(c) == c \in WhiteSpace

\* char::len_utf8: the bytes of one character in UTF-8
Utf8Len(c) ==
    IF c < 128 THEN 1
    ELSE IF c < 2048 THEN 2
    ELSE IF c < 65536 THEN 3
    ELSE 4

RECURSIVE StrLen(_)
StrLen(w) == IF w = <<>> THEN 0 ELSE Utf8Len(Head(w)) + StrLen(Tail(w))

StartsWith(w, c) == w # <<>> /\ Head(w) = c

RECURSIVE TrimStart(_)
TrimStart(w) ==
    IF w # <<>> /\ IsWhitespace(Head(w)) THEN TrimStart(Tail(w)) ELSE w

RECURSIVE TrimEnd(_)
TrimEnd(w) ==
    IF w # <<>> /\ IsWhitespace(w[Len(w)])
    THEN TrimEnd(SubSeq(w, 1, Len(w) - 1))
    ELSE w

Trim(w) == TrimEnd(TrimStart(w))

RECURSIVE SplitFrom(_, _, _, _)
SplitFrom(s, i, cur, acc) ==
    IF i > Len(s)
    THEN IF cur = <<>> THEN acc ELSE Append(acc, cur)
    ELSE IF IsWhitespace(s[i])
         THEN SplitFrom(s, i + 1, <<>>, IF cur = <<>> THEN acc ELSE Append(acc, cur))
         ELSE SplitFrom(s, i + 1, Append(cur, s[i]), acc)

SplitWhitespace(s) == SplitFrom(s, 1, <<>>, <<>>)

-----------------------------------------------------------------------------
(* count_words                                                             *)

\* KeepWord with the length test off by one (w.len() > 0)
KeepWordOffByOne(w, stopwords) ==
    /\ StrLen(w) >= 1
    /\ ~ StartsWith(w, Code("\\"))
    /\ w \notin stopwords

\* the test of the filter_map closure
KeepWord(w, stopwords) ==
    /\ StrLen(w) > 1
    /\ ~ StartsWith(w, Code("\\"))
    /\ w \notin stopwords

\* dictionary.get(w).map_or_else(|| w.to_string(), |w| w.to_owned())
Lemma(w, dictionary) ==
    IF w \in DOMAIN dictionary THEN dictionary[w] ELSE w

\* the filter_map closure: <<lemma>> for Some(lemma), <<>> for None
FilterMapWord(word, dictionary, stopwords) ==
    LET w == Trim(word)
    IN  IF KeepWord(w, stopwords) THEN <<Lemma(w, dictionary)>> ELSE <<>>

RECURSIVE CollectWords(_, _, _)
CollectWords(tokens, dictionary, stopwords) ==
    IF tokens = <<>> THEN <<>>
    ELSE FilterMapWord(Head(tokens), dictionary, stopwords)
         \o CollectWords(Tail(tokens), dictionary, stopwords)

\* *counter.entry(word.to_string()).or_insert(0) += 1
CountEntry(counter, word) ==
    MapPut(counter, word,
           (IF word \in DOMAIN counter THEN counter[word] ELSE 0) + 1)

RECURSIVE CountLoop(_, _)
CountLoop(words, counter) ==
    IF words = <<>> THEN counter
    ELSE CountLoop(Tail(words), CountEntry(counter, Head(words)))

count_words(article, dictionary, stopwords) ==
    CountLoop(CollectWords(SplitWhitespace(article), dictionary, stopwords),
              EmptyMap)

-----------------------------------------------------------------------------
(* f32 arithmetic, bit for bit.  A finite value is m * 2^e with m = 0      *)
(* (and e = 0) for 0.0, else 2^23 <= m < 2^24.  Every value of the program *)
(* is non-negative and far from the subnormal and overflow ranges, so sign *)
(* and exponent limits are left out.  Conversion, division and square root *)
(* round to nearest, ties to even, as IEEE 754 requires of them.           *)

NaN == [kind |-> "nan", m |-> 0, e |-> 0]

Inf == [kind |-> "inf", m |-> 0, e |-> 0]

Zero == [kind |-> "fin", m |-> 0, e |-> 0]

\* The f32 nearest to (q + f) * 2^e, where q > 0, 0 <= f < 1 and f > 0 iff
\* sticky; sticky is FALSE whenever q < 2^24.
RECURSIVE RoundF32(_, _, _)
RoundF32(q, e, sticky) ==
    IF q >= 2^25 THEN RoundF32(q \div 2, e + 1, sticky \/ q % 2 = 1)
    ELSE IF q < 2^24 THEN RoundF32(2 * q, e - 1, sticky)
    ELSE LET half == q \div 2
             up == q % 2 = 1 /\ (sticky \/ half % 2 = 1)
             m == IF up THEN half + 1 ELSE half
         IN  IF m = 2^24
             THEN [kind |-> "fin", m |-> 2^23, e |-> e + 2]
             ELSE [kind |-> "fin", m |-> m, e |-> e + 1]

\* x as f32, x a u32
FromU32(x) == IF x = 0 THEN Zero ELSE RoundF32(x, 0, FALSE)

One == FromU32(1)

\* k more quotient bits of the long division by mb: <<quotient, remainder>>
RECURSIVE DivBits(_, _, _, _)
DivBits(q, r, mb, k) ==
    IF k = 0 THEN <<q, r>>
    ELSE IF 2 * r >= mb
         THEN DivBits(2 * q + 1, 2 * r - mb, mb, k - 1)
         ELSE DivBits(2 * q, 2 * r, mb, k - 1)

\* a / b on f32
F32Div(a, b) ==
    CASE a.kind = "nan" \/ b.kind = "nan" -> NaN
      [] a.kind = "inf" -> IF b.kind = "inf" THEN NaN ELSE Inf
      [] b.kind = "inf" -> Zero
      [] b.m = 0 -> IF a.m = 0 THEN NaN ELSE Inf
      [] a.m = 0 -> Zero
      [] OTHER ->
            LET k == IF a.m >= b.m THEN 24 ELSE 25
                qr == DivBits(a.m \div b.m, a.m % b.m, b.m, k)
            IN  RoundF32(qr[1], a.e - b.e - k, qr[2] # 0)

\* The integer square root of n * 4^13, two bits of n * 4^13 at a time, the
\* first i pairs still to come: <<root, remainder>>.  n < 2^26.
RECURSIVE SqrtPairs(_, _, _, _)
SqrtPairs(n, i, root, rem) ==
    IF i = 0 THEN <<root, rem>>
    ELSE LET pair == IF i > 13 THEN (n \div 4^(i - 14)) % 4 ELSE 0
             r == 4 * rem + pair
             trial == 4 * root + 1
         IN  IF r >= trial
             THEN SqrtPairs(n, i - 1, 2 * root + 1, r - trial)
             ELSE SqrtPairs(n, i - 1, 2 * root, r)

\* a.sqrt() on f32, a >= 0
F32Sqrt(a) ==
    CASE a.kind = "nan" -> NaN
      [] a.kind = "inf" -> Inf
      [] a.m = 0 -> Zero
      [] OTHER ->
            LET odd == a.e % 2 = 1
                n == IF odd THEN 2 * a.m ELSE a.m
                e2 == IF odd THEN a.e - 1 ELSE a.e
                rr == SqrtPairs(n, 26, 0, 0)
            IN  RoundF32(rr[1], (e2 \div 2) - 13, rr[2] # 0)

IsNaN(x) == x.kind = "nan"

\* a < b on f32: false when either side is NaN
F32Less(a, b) ==
    CASE IsNaN(a) \/ IsNaN(b) -> FALSE
      [] a.kind = "inf" -> FALSE
      [] b.kind = "inf" -> TRUE
      [] a.m = 0 -> b.m > 0
      [] b.m = 0 -> FALSE
      [] OTHER -> a.e < b.e \/ (a.e = b.e /\ a.m < b.m)

\* f32::clamp(0.0, 1.0): NaN stays NaN
Clamp01(x) ==
    IF IsNaN(x) THEN NaN
    ELSE IF F32Less(x, Zero) THEN Zero
    ELSE IF F32Less(One, x) THEN One
    ELSE x

\* a == b on f32: false when either side is NaN
F32Eq(a, b) ==
    /\ ~ IsNaN(a)
    /\ ~ IsNaN(b)
    /\ a = b

\* a.partial_cmp(b) is None
PartialCmpIsNone(a, b) == IsNaN(a) \/ IsNaN(b)

-----------------------------------------------------------------------------
(* calculate_cosine_similarity                                             *)

RECURSIVE SumOver(_, _, _)
SumOver(keys, counter, other) ==
    IF keys = {} THEN 0
    ELSE LET k == CHOOSE x \in keys : TRUE
         IN  (IF k \in DOMAIN counter THEN counter[k] ELSE 1)
               * (IF k \in DOMAIN other THEN other[k] ELSE 1)
             + SumOver(keys \ {k}, counter, other)

\* counter.values().map(|x| x * x).sum()
SumSquares(counter) == SumOver(DOMAIN counter, counter, counter)

calculate_cosine_similarity(counter1, counter2) ==
    LET k1 == DOMAIN counter1
        k2 == DOMAIN counter2
        common_keys == k1 \cap k2
        r1 == SumSquares(counter1)
        r2 == SumSquares(counter2)
        sum == SumOver(common_keys, counter1, counter2)
    IN  Clamp01(F32Div(F32Div(FromU32(sum), F32Sqrt(FromU32(r1))),
                       F32Sqrt(FromU32(r2))))

-----------------------------------------------------------------------------
(* The corpus.  A file is what analyze_path reads: permalink_match is the  *)
(* capture group of permalink_pattern (<<>> when the pattern does not      *)
(* match), segments the number of pieces the split on the separator gives, *)
(* cleaned the third piece after the replace_all passes of clean_up.       *)
(* Texts are lower case.                                                   *)

sp == Text(<<" ">>)
kot == Text(<<"k", "o", "t">>)
koty == Text(<<"k", "o", "t", "y">>)
pies == Text(<<"p", "i", "e", "s">>)
psy == Text(<<"p", "s", "y">>)
ryba == Text(<<"r", "y", "b", "a">>)
to == Text(<<"t", "o">>)

\* what join(build_dictionary, build_stopwords) hands to main
Dictionary == (koty :> kot) @@ (psy :> pies)

Stopwords == {to}

File(permalink_match, segments, cleaned) ==
    [permalink_match |-> permalink_match, segments |-> segments, cleaned |-> cleaned]

Catalog ==
    <<  File(<<"/a">>, 3, kot \o sp \o pies),
        File(<<"/b">>, 3, koty \o Text(<<"\r", "\n">>) \o kot),
        File(<<"/c">>, 3, psy \o sp \o pies),
        File(<<"/d">>, 3, kot \o sp \o pies \o sp \o ryba),
        File(<<"/e">>, 3, kot \o sp \o koty \o sp \o psy),
        File(<<"/f">>, 3, to \o sp \o Text(<<"\\", "x">>) \o sp \o Text(<<"a">>)),
        File(<<"/a">>, 3, ryba),
        File(<<>>, 3, kot),
        File(<<"/h">>, 2, <<>>)  >>

-----------------------------------------------------------------------------
(* main                                                                    *)

Corpora == {c \in SUBSET DOMAIN Catalog : Cardinality(c) <= MaxArticles}

IdleWords ==
    /\ cw_article = <<>>
    /\ cw_dictionary = EmptyMap
    /\ cw_stopwords = {}
    /\ cw_counter = EmptyMap
    /\ cw_pc = "idle"

IdleDict ==
    /\ d_lines = <<>>
    /\ d_next = <<>>
    /\ d_held = <<>>
    /\ d_acc = <<>>
    /\ d_live = <<>>
    /\ d_result = <<>>

IdleMain ==
    /\ files = {}
    /\ pending = {}
    /\ analyzed_files = <<>>
    /\ all_results = EmptyMap
    /\ idx1 = 0
    /\ idx2 = 0
    /\ calls = EmptyMap
    /\ top_similarities_per_files = EmptyMap
    /\ pc = "idle"
    /\ panic = "none"

Init ==
    /\ files \in Corpora
    /\ pending = files
    /\ analyzed_files = <<>>
    /\ all_results = EmptyMap
    /\ idx1 = 0
    /\ idx2 = 0
    /\ calls = EmptyMap
    /\ top_similarities_per_files = EmptyMap
    /\ pc = "analyze"
    /\ panic = "none"
    /\ IdleWords
    /\ IdleDict

Permalink(entry) == entry[1]

Counter(entry) == entry[2]

Panic(cause) ==
    /\ pc' = "panicked"
    /\ panic' = cause

\* One item of the par_bridge map: analyze_path on one file, then unwrap.
\* get_permalink unwraps captures(); clean_up unwraps article.get(2).
Analyze(f) ==
    /\ pc = "analyze"
    /\ f \in pending
    /\ LET file == Catalog[f]
       IN  IF file.permalink_match = <<>>
           THEN /\ Panic("get_permalink")
                /\ UNCHANGED <<pending, analyzed_files>>
           ELSE IF file.segments < 3
           THEN /\ Panic("clean_up")
                /\ UNCHANGED <<pending, analyzed_files>>
           ELSE /\ analyzed_files' =
                      Append(analyzed_files,
                             << file.permalink_match[1],
                                count_words(file.cleaned, Dictionary, Stopwords) >>)
                /\ pending' = pending \ {f}
                /\ UNCHANGED <<pc, panic>>
    /\ UNCHANGED <<files, all_results, idx1, idx2, calls, top_similarities_per_files>>
    /\ UNCHANGED <<wordsVars, dictVars>>

PairsOf(n) == {{i, j} : i, j \in 1 .. n} \ {{i} : i \in 1 .. n}

\* collect() is complete; calculate_all_similarities inserts an empty row
\* for every permalink of r.
EnterSimilarities ==
    /\ pc = "analyze"
    /\ pending = {}
    /\ all_results' = [p \in {Permalink(e) : e \in Range(analyzed_files)} |-> EmptyMap]
    /\ idx1' = 1
    /\ idx2' = 1
    /\ calls' = [pr \in PairsOf(Len(analyzed_files)) |-> 0]
    /\ pc' = "similarities"
    /\ UNCHANGED <<files, pending, analyzed_files, top_similarities_per_files, panic>>
    /\ UNCHANGED <<wordsVars, dictVars>>

\* SkipPair comparing the positions in r instead of the permalinks
SkipPairByPosition(r, i, j) == i = j

\* if permalink1 == permalink2 { continue; }
SkipPair(r, i, j) == Permalink(r[i]) = Permalink(r[j])

\* entry(permalink2).or_insert(v): the stored value when the key is present
OrInsert(row, key, v) == IF key \in DOMAIN row THEN row[key] ELSE v

\* the two insert calls that follow
InsertBoth(results, permalink1, permalink2, value) ==
    LET first == [results EXCEPT ![permalink1] = MapPut(@, permalink2, value)]
    IN  [first EXCEPT ![permalink2] = MapPut(@, permalink1, value)]

\* One iteration of the inner loop.  The argument of or_insert is evaluated
\* before or_insert is entered, whether or not the key is present.
SimilarityStep ==
    /\ pc = "similarities"
    /\ idx1 <= Len(analyzed_files)
    /\ LET r == analyzed_files
           permalink1 == Permalink(r[idx1])
           permalink2 == Permalink(r[idx2])
       IN  IF SkipPair(r, idx1, idx2)
           THEN UNCHANGED <<all_results, calls>>
           ELSE LET computed == calculate_cosine_similarity(Counter(r[idx1]),
                                                            Counter(r[idx2]))
                    value == OrInsert(all_results[permalink1], permalink2, computed)
                IN  /\ calls' = [calls EXCEPT ![{idx1, idx2}] = @ + 1]
                    /\ all_results' =
                           InsertBoth(all_results, permalink1, permalink2, value)
    /\ IF idx2 < Len(analyzed_files)
       THEN /\ idx2' = idx2 + 1
            /\ idx1' = idx1
       ELSE /\ idx2' = 1
            /\ idx1' = idx1 + 1
    /\ UNCHANGED <<files, pending, analyzed_files, top_similarities_per_files, pc, panic>>
    /\ UNCHANGED <<wordsVars, dictVars>>

\* the outer loop is exhausted: all_results is returned to main
ReturnSimilarities ==
    /\ pc = "similarities"
    /\ idx1 > Len(analyzed_files)
    /\ pc' = "top"
    /\ UNCHANGED <<files, pending, analyzed_files, all_results, idx1, idx2, calls,
                   top_similarities_per_files, panic>>
    /\ UNCHANGED <<wordsVars, dictVars>>

\* The comparator |(_, a), (_, b)| b.partial_cmp(a).unwrap() is called on
\* every element of a slice of two or more entries.
SortPanics(val) ==
    /\ Cardinality(DOMAIN val) >= 2
    /\ \E k1, k2 \in DOMAIN val : k1 # k2 /\ PartialCmpIsNone(val[k2], val[k1])

\* What val.iter().collect() followed by par_sort_unstable_by can leave in
\* entries: any order of the keys in which no entry precedes a larger one.
RECURSIVE SortedOrders(_, _)
SortedOrders(keys, val) ==
    IF keys = {} THEN {<<>>}
    ELSE UNION { {<<k>> \o rest : rest \in SortedOrders(keys \ {k}, val)} :
                 k \in {x \in keys : \A y \in keys : ~ F32Less(val[x], val[y])} }

SortedEntries(val) == SortedOrders(DOMAIN val, val)

\* entries[..TOP_ITEMS] is in bounds
SliceInBounds(entries) == TOP_ITEMS <= Len(entries)

\* One item of the par_iter map over similarities_per_file.
TopK(permalink) ==
    /\ pc = "top"
    /\ permalink \in DOMAIN all_results \ DOMAIN top_similarities_per_files
    /\ LET val == all_results[permalink]
       IN  IF SortPanics(val)
           THEN /\ Panic("partial_cmp")
                /\ UNCHANGED top_similarities_per_files
           ELSE \E entries \in SortedEntries(val) :
                    IF SliceInBounds(entries)
                    THEN /\ top_similarities_per_files' =
                                MapPut(top_similarities_per_files, permalink,
                                       SubSeq(entries, 1, TOP_ITEMS))
                         /\ UNCHANGED <<pc, panic>>
                    ELSE /\ Panic("slice_index")
                         /\ UNCHANGED top_similarities_per_files
    /\ UNCHANGED <<files, pending, analyzed_files, all_results, idx1, idx2, calls>>
    /\ UNCHANGED <<wordsVars, dictVars>>

\* collect() is complete: the map is serialized and written, main returns Ok
Finish ==
    /\ pc = "top"
    /\ DOMAIN top_similarities_per_files = DOMAIN all_results
    /\ pc' = "done"
    /\ UNCHANGED <<files, pending, analyzed_files, all_results, idx1, idx2, calls,
                   top_similarities_per_files, panic>>
    /\ UNCHANGED <<wordsVars, dictVars>>

Next ==
    \/ \E f \in DOMAIN Catalog : Analyze(f)
    \/ EnterSimilarities
    \/ SimilarityStep
    \/ ReturnSimilarities
    \/ \E permalink \in DOMAIN all_results : TopK(permalink)
    \/ Finish

Spec == Init /\ [][Next]_vars

-----------------------------------------------------------------------------
(* count_words on bounded inputs                                           *)

\* a, backslash, space, carriage return and U+017C (two bytes in UTF-8)
Alphabet == {Code("a"), Code("\\"), Code(" "), Code("\r")} \cup {380}

aa == Text(<<"a", "a">>)

zdot == <<380>>

azdot == Text(<<"a">>) \o zdot

RECURSIVE StringsUpTo(_)
StringsUpTo(n) ==
    IF n = 0 THEN {<<>>}
    ELSE LET shorter == StringsUpTo(n - 1)
         IN  shorter \cup {Append(s, c) : s \in shorter, c \in Alphabet}

WordsDictionaries ==
    { EmptyMap,
      aa :> azdot,
      (zdot :> aa) @@ (azdot :> Text(<<"a">>)) }

WordsStopwords == { {}, {aa}, {zdot, zdot \o Text(<<"a">>)} }

InitWords ==
    /\ cw_article \in StringsUpTo(MaxArticleLen)
    /\ cw_dictionary \in WordsDictionaries
    /\ cw_stopwords \in WordsStopwords
    /\ cw_counter = EmptyMap
    /\ cw_pc = "call"
    /\ IdleMain
    /\ IdleDict

CountWordsCall ==
    /\ cw_pc = "call"
    /\ cw_counter' = count_words(cw_article, cw_dictionary, cw_stopwords)
    /\ cw_pc' = "returned"
    /\ UNCHANGED <<cw_article, cw_dictionary, cw_stopwords>>
    /\ UNCHANGED <<mainVars, dictVars>>

NextWords == CountWordsCall

SpecWords == InitWords /\ [][NextWords]_vars

-----------------------------------------------------------------------------
(* build_dictionary: the lines are handed out by the shared iterator of    *)
(* par_bridge to whichever worker asks next; each worker folds the line it *)
(* took into its own accumulator, while other workers take and fold later  *)
(* lines; reduce_with merges the accumulators two at a time.  Two runs     *)
(* read the same lines.                                                    *)

Runs == {1, 2}

Workers == 1 .. NumWorkers

DictLemmas == {Text(<<"a">>), Text(<<"b">>)}

DictForms == {Text(<<"a", "a">>), Text(<<"b", "b">>)}

\* y.split(';').take(2).collect(): x[0] the lemma, x[1] the surface form
DictLines == {<<lemma, form>> : lemma \in DictLemmas, form \in DictForms}

RECURSIVE LinesUpTo(_)
LinesUpTo(n) ==
    IF n = 0 THEN {<<>>}
    ELSE LET shorter == LinesUpTo(n - 1)
         IN  shorter \cup {Append(s, l) : s \in shorter, l \in DictLines}

InitDict ==
    /\ d_lines \in LinesUpTo(MaxLines) \ {<<>>}
    /\ d_next = [run \in Runs |-> 1]
    /\ d_held = [run \in Runs |-> [w \in Workers |-> <<>>]]
    /\ d_acc = [run \in Runs |-> [w \in Workers |-> EmptyMap]]
    /\ d_live = [run \in Runs |-> Workers]
    /\ d_result = [run \in Runs |-> <<>>]
    /\ IdleMain
    /\ IdleWords

\* the fold closure: acc.insert(x[1].to_string(), x[0].to_string())
FoldLine(acc, x) == MapPut(acc, x[2], x[1])

\* the reduce_with closure: every (k, v) of right is inserted into left
ReduceMaps(left, right) ==
    [k \in DOMAIN left \cup DOMAIN right |->
        IF k \in DOMAIN right THEN right[k] ELSE left[k]]

\* the worker has no line in hand and the iterator has no line left
Finished(run, w) ==
    /\ d_next[run] > Len(d_lines)
    /\ d_held[run][w] = <<>>

\* par_bridge: a worker takes the next line from the shared iterator, which
\* is locked for the call of next() only
Take(run, w) ==
    /\ d_next[run] <= Len(d_lines)
    /\ d_held[run][w] = <<>>
    /\ d_held' = [d_held EXCEPT ![run][w] = <<d_lines[d_next[run]]>>]
    /\ d_next' = [d_next EXCEPT ![run] = @ + 1]
    /\ UNCHANGED <<d_lines, d_acc, d_live, d_result>>
    /\ UNCHANGED <<mainVars, wordsVars>>

\* the worker folds the line it took into its own accumulator
Fold(run, w) ==
    /\ d_held[run][w] # <<>>
    /\ d_acc' = [d_acc EXCEPT ![run][w] = FoldLine(@, d_held[run][w][1])]
    /\ d_held' = [d_held EXCEPT ![run][w] = <<>>]
    /\ UNCHANGED <<d_lines, d_next, d_live, d_result>>
    /\ UNCHANGED <<mainVars, wordsVars>>

\* two accumulators whose workers are done are merged
Reduce(run, left, right) ==
    /\ left \in d_live[run]
    /\ right \in d_live[run]
    /\ left # right
    /\ Finished(run, left)
    /\ Finished(run, right)
    /\ d_acc' = [d_acc EXCEPT ![run][left] = ReduceMaps(@, d_acc[run][right])]
    /\ d_live' = [d_live EXCEPT ![run] = @ \ {right}]
    /\ UNCHANGED <<d_lines, d_next, d_held, d_result>>
    /\ UNCHANGED <<mainVars, wordsVars>>

\* reduce_with(..).unwrap()
DictReturn(run) ==
    /\ d_result[run] = <<>>
    /\ \E w \in Workers :
          /\ d_live[run] = {w}
          /\ Finished(run, w)
          /\ d_result' = [d_result EXCEPT ![run] = <<d_acc[run][w]>>]
    /\ UNCHANGED <<d_lines, d_next, d_held, d_acc, d_live>>
    /\ UNCHANGED <<mainVars, wordsVars>>

NextDict ==
    \/ \E run \in Runs, w \in Workers : Take(run, w)
    \/ \E run \in Runs, w \in Workers : Fold(run, w)
    \/ \E run \in Runs, left, right \in Workers : Reduce(run, left, right)
    \/ \E run \in Runs : DictReturn(run)

SpecDict == InitDict /\ [][NextDict]_vars

-----------------------------------------------------------------------------
(* Properties of main (checked under Spec).                                *)

Min(a, b) == IF a <= b THEN a ELSE b

\* String's Ord on the permalinks of the catalog
PermalinkOrder == <<"/a", "/b", "/c", "/d", "/e", "/f", "/h">>

PermalinkLess(p, q) ==
    \E i, j \in DOMAIN PermalinkOrder :
        /\ PermalinkOrder[i] = p
        /\ PermalinkOrder[j] = q
        /\ i < j

UniquePermalinks ==
    \A f, g \in files :
        f # g => Catalog[f].permalink_match # Catalog[g].permalink_match

\* calculate_all_similarities has returned
Returned ==
    \/ pc \in {"top", "done"}
    \/ pc = "panicked" /\ panic \in {"partial_cmp", "slice_index"}

\* the permalink of analyzed_files[i] is carried by no other article
UniqueIn(r, i) == \A j \in DOMAIN r : j # i => Permalink(r[j]) # Permalink(r[i])

\* C1: for a corpus of N articles with unique permalinks the top-K selection
\* never fails on the slice entries[..TOP_ITEMS], and every neighbor list it
\* gives has length min(TOP_ITEMS, N - 1).
C1_TopKLength ==
    UniquePermalinks =>
        /\ panic # "slice_index"
        /\ \A p \in DOMAIN top_similarities_per_files :
              Len(top_similarities_per_files[p])
                  = Min(TOP_ITEMS, Cardinality(files) - 1)

\* C2: an article without a permalink key, or with fewer than three segments,
\* never aborts the run.
C2_ArticleFailureIsolated ==
    ~ (pc = "panicked" /\ panic \in {"get_permalink", "clean_up"})

\* C3: every score written in row A under key B is also in row B under key A
\* and the two compare equal (f32 ==); once calculate_all_similarities has
\* returned, every pair of distinct permalinks has its entry.
C3_Symmetry ==
    /\ \A A \in DOMAIN all_results : \A B \in DOMAIN all_results[A] :
          /\ A \in DOMAIN all_results[B]
          /\ F32Eq(all_results[A][B], all_results[B][A])
    /\ Returned =>
          \A A, B \in DOMAIN all_results : A # B => B \in DOMAIN all_results[A]

\* C4: the row of permalink P never holds the key P, and the neighbor list
\* given for P never holds P.
C4_SelfExclusion ==
    /\ \A p \in DOMAIN all_results : p \notin DOMAIN all_results[p]
    /\ \A p \in DOMAIN top_similarities_per_files :
          p \notin Range(top_similarities_per_files[p])

\* C4 witness: a run over a corpus with two articles of one permalink has
\* finished and has given neighbor lists.
C4_Witness ==
    /\ pc = "done"
    /\ \E p \in DOMAIN top_similarities_per_files :
          Len(top_similarities_per_files[p]) = TOP_ITEMS
    /\ \E i, j \in DOMAIN analyzed_files :
          i # j /\ Permalink(analyzed_files[i]) = Permalink(analyzed_files[j])

\* C5: every score stored in the matrix is a number s with 0.0 <= s <= 1.0.
C5_Range ==
    \A A \in DOMAIN all_results : \A B \in DOMAIN all_results[A] :
        /\ all_results[A][B].kind = "fin"
        /\ ~ F32Less(all_results[A][B], Zero)
        /\ ~ F32Less(One, all_results[A][B])

\* C6: an article with an empty term-frequency vector has score exactly 0
\* against every other article, and the sort of the neighbors never fails on
\* an undefined comparison.
C6_EmptyVectorScoresZero ==
    /\ \A i \in DOMAIN analyzed_files :
          (Counter(analyzed_files[i]) = EmptyMap /\ UniqueIn(analyzed_files, i)
             /\ Permalink(analyzed_files[i]) \in DOMAIN all_results)
          => \A B \in DOMAIN all_results[Permalink(analyzed_files[i])] :
                 all_results[Permalink(analyzed_files[i])][B] = Zero
    /\ panic # "partial_cmp"

\* C7: every neighbor list is ordered by descending score, and neighbors of
\* equal score by ascending permalink.
C7_DeterministicOrder ==
    \A p \in DOMAIN top_similarities_per_files :
        LET list == top_similarities_per_files[p]
            score(i) == all_results[p][list[i]]
        IN  \A i, j \in DOMAIN list :
                i < j => /\ ~ F32Less(score(i), score(j))
                         /\ score(i) = score(j) => PermalinkLess(list[i], list[j])

\* C9: the cosine similarity of each unordered pair of articles with distinct
\* permalinks is computed exactly once over the nested loop.
C9_ComputedOnce ==
    /\ \A pr \in DOMAIN calls : calls[pr] <= 1
    /\ Returned =>
          \A i, j \in DOMAIN analyzed_files :
              Permalink(analyzed_files[i]) # Permalink(analyzed_files[j])
                  => calls[{i, j}] = 1

-----------------------------------------------------------------------------
(* Property of build_dictionary (checked under SpecDict).                  *)

\* C8: two runs of build_dictionary over the same lines return the same
\* mapping, whatever the scheduling of the workers.
C8_SameDictionary ==
    (d_result[1] # <<>> /\ d_result[2] # <<>>) => d_result[1] = d_result[2]

-----------------------------------------------------------------------------
(* Property of count_words (checked under SpecWords).                      *)

\* the maximal runs of non-whitespace characters of s, as <<first, last>>
TokenSpans(s) ==
    {sp2 \in (1 .. Len(s)) \X (1 .. Len(s)) :
        /\ sp2[1] <= sp2[2]
        /\ \A k \in sp2[1] .. sp2[2] : ~ IsWhitespace(s[k])
        /\ sp2[1] = 1 \/ IsWhitespace(s[sp2[1] - 1])
        /\ sp2[2] = Len(s) \/ IsWhitespace(s[sp2[2] + 1])}

Dropped(token, stopwords) ==
    \/ StrLen(token) <= 1
    \/ Head(token) = Code("\\")
    \/ token \in stopwords

LemmaOf(token, dictionary) ==
    IF token \in DOMAIN dictionary THEN dictionary[token] ELSE token

\* how many surviving tokens of the article have the lemma l
Occurrences(l) ==
    Cardinality({t \in TokenSpans(cw_article) :
        LET token == SubSeq(cw_article, t[1], t[2])
        IN  /\ ~ Dropped(token, cw_stopwords)
            /\ LemmaOf(token, cw_dictionary) = l})

SurvivingLemmas ==
    {LemmaOf(SubSeq(cw_article, t[1], t[2]), cw_dictionary) :
        t \in {u \in TokenSpans(cw_article) :
                  ~ Dropped(SubSeq(cw_article, u[1], u[2]), cw_stopwords)}}

\* C10: count_words returns exactly the multiset of the lemmas of the
\* surviving tokens: a token is dropped iff its length (len(), in bytes) is
\* <= 1, it starts with a backslash or it is a stopword; every other token
\* adds 1 to its dictionary lemma, or to itself when the dictionary has no
\* entry; every count is >= 1.
C10_CountWords ==
    cw_pc = "returned" =>
        /\ DOMAIN cw_counter = SurvivingLemmas
        /\ \A l \in DOMAIN cw_counter :
              /\ cw_counter[l] = Occurrences(l)
              /\ cw_counter[l] >= 1

\* C10 witness: an article of three tokens, one of them dropped, the other
\* two counted under one lemma that the dictionary gave.
C10_Witness ==
    /\ cw_pc = "returned"
    /\ Len(SplitWhitespace(cw_article)) = 3
    /\ \E l \in DOMAIN cw_counter :
          /\ cw_counter[l] = 2
          /\ l \in Range(cw_dictionary)
          /\ DOMAIN cw_counter = {l}

=============================================================================
